---- MODULE Spec2Model ----
(***************************************************************************)
(* Model of the OpenVPN server.conf patcher of ebaws/openvpn.py:           *)
(* ConfigLine (classification and rendering of one line) and OpenVpn       *)
(* (load_config_file_lines, set_config_value, update_config_file).         *)
(*                                                                         *)
(* Text is a sequence of one-character strings.  Python's None is the      *)
(* one-element sequence <<"None">>, which no text can equal because every  *)
(* element of a text is a single character.  An optional list (the         *)
(* document before it is loaded, the file before it exists) is <<>> for    *)
(* None / missing and <<l>> for the list l.                                *)
(***************************************************************************)
EXTENDS Integers, Sequences, FiniteSets, TLC

VARIABLES
    file,                    \* the file at get_config_file_path(): <<>> or <<lines>>
    backups,                 \* number of backup copies made of the file
    server_config_data,      \* OpenVpn.server_config_data: <<>> (None) or <<list of ConfigLine>>
    server_config_modified,  \* OpenVpn.server_config_modified
    call,                    \* history: the last call made and how it ended
    repeated,                \* history: the last call repeats the set_config_value before it
    pre,                     \* history: the loaded document as the last call found it
    preFile,                 \* history: the file as the last call found it
    lastSet,                 \* history: the last set_config_value call made
    changedSinceFlush,       \* history: some set_config_value returned True since load / last flush
    ncalls,                  \* history: number of calls made
    self,                    \* installer procedures: the object the procedure runs on
    pc,                      \* installer procedures: the position of the one procedure running
    attempt,                 \* installer procedures: the loop variable (i, or the index of provserver)
    res,                     \* installer procedures: res / ejbca_install_result / jboss_works
    steps,                   \* history: the collaborator calls the procedure has made, in order
    ret                      \* installer procedures: << >> while running, then how the procedure ended

\* The state of OpenVpn and of its file
ovpnVars == << file, backups, server_config_data, server_config_modified,
               call, repeated, pre, preFile, lastSet,
               changedSinceFlush, ncalls >>

\* The state of the installer procedure
procVars == << self, pc, attempt, res, steps, ret >>

vars == << ovpnVars, procVars >>

\* No installer procedure runs.
NoProcedure ==
    /\ self = [ class |-> "OpenVpn" ]
    /\ pc = "idle"
    /\ attempt = 0
    /\ res = 0
    /\ steps = << >>
    /\ ret = << >>

----------------------------------------------------------------------------
(* Bounds *)

MaxLines == 2
MaxCalls == 2
MaxLineLen == 4

----------------------------------------------------------------------------
(* Line types, openvpn.py:19-22 *)

CONFIG_LINE_BLANK == 0
CONFIG_LINE_COMMENT == 1
CONFIG_LINE_CMD_COMMENT == 2
CONFIG_LINE_CMD == 3

(* Python values *)

None == << "None" >>

\* str(x) as the % operator formats it: None prints as the four letters.
Str(x) == IF x = None THEN << "N", "o", "n", "e" >> ELSE x

\* Characters \s matches and str.strip() removes.
WhiteSpace == { " ", "\t" }

\* Characters of the class [a-zA-Z0-9\-_] of the directive pattern.
NameChars ==
    { "a","b","c","d","e","f","g","h","i","j","k","l","m",
      "n","o","p","q","r","s","t","u","v","w","x","y","z",
      "A","B","C","D","E","F","G","H","I","J","K","L","M",
      "N","O","P","Q","R","S","T","U","V","W","X","Y","Z",
      "0","1","2","3","4","5","6","7","8","9","-","_" }

\* Characters that introduce the trailing comment group (#|;).
CommentChars == { "#", ";" }

\* s[k:] with k counted from 1
From(s, k) == SubSeq(s, k, Len(s))

RECURSIVE LStrip(_)
LStrip(s) ==
    IF s # << >> /\ Head(s) \in WhiteSpace THEN LStrip(From(s, 2)) ELSE s

RECURSIVE RStrip(_)
RStrip(s) ==
    IF s # << >> /\ s[Len(s)] \in WhiteSpace THEN RStrip(SubSeq(s, 1, Len(s) - 1)) ELSE s

\* str.strip()
Strip(s) == LStrip(RStrip(s))

\* Length of the longest prefix of s made of characters of set C.
RECURSIVE Span(_, _)
Span(s, C) ==
    IF s # << >> /\ Head(s) \in C THEN 1 + Span(From(s, 2), C) ELSE 0

\* t matches \s*(#|;).+ up to its end: the optional trailing comment group.
IsCommentGroup(t) ==
    LET w == Span(t, WhiteSpace)
    IN  /\ Len(t) >= w + 2
        /\ t[w + 1] \in CommentChars

(***************************************************************************)
(* The directive pattern of ConfigLine.build,                              *)
(*   ^\s*(;)?\s*([a-zA-Z0-9\-_]+)\s+(.+?)(\s*(#|;).+)?$                     *)
(* matched as re.match does: greedy optional ';', greedy name, greedy      *)
(* white space, then the shortest value (.+?) that leaves either a         *)
(* trailing comment group or nothing.  The result is matched = FALSE or    *)
(* the groups 1 to 4 (a group that took no part is None).                  *)
(***************************************************************************)
CmdMatch(line) ==
    LET w0    == Span(line, WhiteSpace)
        a0    == From(line, w0 + 1)
        semi  == a0 # << >> /\ Head(a0) = ";"
        a1    == IF semi THEN From(a0, 2) ELSE a0
        a2    == From(a1, Span(a1, WhiteSpace) + 1)
        n     == Span(a2, NameChars)
        a3    == From(a2, n + 1)
        w     == Span(a3, WhiteSpace)
        rest  == From(a3, w + 1)
        cuts  == { k \in 1..Len(rest) :
                     k = Len(rest) \/ IsCommentGroup(From(rest, k + 1)) }
        k     == CHOOSE c \in cuts : \A d \in cuts : c <= d
    IN  IF n >= 1 /\ w >= 1 /\ rest # << >>
        THEN [ matched |-> TRUE,
               g1 |-> IF semi THEN << ";" >> ELSE None,
               g2 |-> SubSeq(a2, 1, n),
               g3 |-> SubSeq(rest, 1, k),
               g4 |-> IF k = Len(rest) THEN None ELSE From(rest, k + 1) ]
        ELSE [ matched |-> FALSE, g1 |-> None, g2 |-> None, g3 |-> None, g4 |-> None ]

\* ConfigLine.__init__: params and comment default to ''.
ConfigLine(idx, raw, ltype, cmd, params, comment) ==
    [ idx     |-> idx,
      raw     |-> raw,
      ltype   |-> ltype,
      cmd     |-> cmd,
      params  |-> IF params # None THEN params ELSE << >>,
      comment |-> IF comment # None THEN comment ELSE << >> ]

\* ConfigLine.build raises AttributeError (cmd_match is None and is dereferenced)
\* when the line is neither blank, nor a comment, nor matches the directive pattern.
BuildRaises(text) ==
    LET line == Strip(text)
    IN  /\ line # << >>
        /\ Head(line) # "#"
        /\ ~CmdMatch(line).matched
        /\ Head(line) # ";"

\* Mutant of Build: a line that starts with ';' and does not match the
\* directive pattern is taken for a disabled directive (lines 71-73 set
\* CONFIG_LINE_CMD_COMMENT).
Build_SemicolonIsDisabled(text, idx) ==
    LET line == Strip(text)
        cl   == ConfigLine(idx, line, None, None, None, None)
        m    == CmdMatch(line)
    IN  IF line = << >>
        THEN [cl EXCEPT !.ltype = CONFIG_LINE_BLANK]
        ELSE IF Head(line) = "#"
        THEN [cl EXCEPT !.ltype = CONFIG_LINE_COMMENT]
        ELSE IF ~m.matched /\ Head(line) = ";"
        THEN [cl EXCEPT !.ltype = CONFIG_LINE_CMD_COMMENT]
        ELSE [cl EXCEPT !.ltype   = IF m.g1 = None THEN CONFIG_LINE_CMD
                                                   ELSE CONFIG_LINE_CMD_COMMENT,
                        !.cmd     = Strip(m.g2),
                        !.params  = Strip(m.g3),
                        !.comment = m.g4]

\* ConfigLine.build, where it returns.
Build(text, idx) ==
    LET line == Strip(text)
        cl   == ConfigLine(idx, line, None, None, None, None)
        m    == CmdMatch(line)
    IN  IF line = << >>
        THEN [cl EXCEPT !.ltype = CONFIG_LINE_BLANK]
        ELSE IF Head(line) = "#"
        THEN [cl EXCEPT !.ltype = CONFIG_LINE_COMMENT]
        ELSE IF ~m.matched /\ Head(line) = ";"
        THEN [cl EXCEPT !.ltype = CONFIG_LINE_COMMENT]
        ELSE [cl EXCEPT !.ltype   = IF m.g1 = None THEN CONFIG_LINE_CMD
                                                   ELSE CONFIG_LINE_CMD_COMMENT,
                        !.cmd     = Strip(m.g2),
                        !.params  = Strip(m.g3),
                        !.comment = m.g4]

\* ConfigLine.raw (the property)
Raw(cl) ==
    IF cl.ltype \in { CONFIG_LINE_COMMENT, CONFIG_LINE_BLANK }
    THEN cl.raw
    ELSE (IF cl.ltype = CONFIG_LINE_CMD THEN << >> ELSE << ";" >>)
         \o Str(cl.cmd) \o << " " >> \o Str(cl.params) \o << " " >> \o Str(cl.comment)

----------------------------------------------------------------------------
(* The inputs: file lines, directive names and values the calls are made with *)

\* Lines a server.conf may hold (without the newline that ends each).
FileLines ==
    { << "p", " ", "1" >>,                       \* p 1
      << ";", "p", " ", "1" >>,                  \* ;p 1
      << "p", " ", "2", " ", "#", "x" >>,        \* p 2 #x
      << "q", " ", "1" >>,                       \* q 1
      << "#", " ", "p" >>,                       \* # p
      << >>,                                     \* blank line
      << "p" >> }                                \* p   (a directive without a value)

\* All lists of at most n elements of S.
RECURSIVE SeqsUpTo(_, _)
SeqsUpTo(S, n) ==
    IF n = 0 THEN { << >> }
    ELSE LET shorter == SeqsUpTo(S, n - 1)
         IN  shorter \cup { Append(s, x) : s \in { t \in shorter : Len(t) = n - 1 }, x \in S }

Files == { << >> } \cup { << f >> : f \in SeqsUpTo(FileLines, MaxLines) }

Cmds == { << "p" >>, << "q" >> }

V1 == << "1" >>
V2 == << "2" >>

\* The `values` argument: None, one string, or a list of strings.
ValuesArgs ==
    { [ type |-> "None", str |-> None, list |-> << >> ] }
    \cup { [ type |-> "str", str |-> v, list |-> << >> ] : v \in { V1, V2 } }
    \cup { [ type |-> "list", str |-> None, list |-> l ] : l \in { << >>, << V1, V2 >> } }

----------------------------------------------------------------------------
(* OpenVpn *)

\* load_config_file_lines raises when ConfigLine.build raises on a line.
LoadRaises(f) ==
    /\ f # << >>
    /\ \E i \in 1..Len(f[1]) : BuildRaises(f[1][i])

\* load_config_file_lines, lines 118-121: lines.append(ConfigLine.build(line,
\* idx)) for the lines of the file from position idx (counted from 0) on;
\* config is the list built so far.
RECURSIVE AppendLines(_, _, _)
AppendLines(config, lines, idx) ==
    IF idx >= Len(lines) THEN config
    ELSE AppendLines(Append(config, Build(lines[idx + 1], idx)), lines, idx + 1)

\* load_config_file_lines, where it returns: [] for a missing file, else one
\* ConfigLine per line, idx counted from 0.
LoadConfigFileLines(f) ==
    IF f = << >> THEN << >>
    ELSE AppendLines(<< >>, f[1], 0)

\* set_config_value, lines 144-148: values normalised to a list.
NormValues(values) ==
    IF values.type = "list" THEN values.list
    ELSE IF values.type = "None" THEN << >>
    ELSE << values.str >>

\* x in l
In(x, l) == \E i \in 1..Len(l) : l[i] = x

\* l.index(x), counted from 0
Index(l, x) == (CHOOSE i \in 1..Len(l) : l[i] = x /\ \A j \in 1..(i - 1) : l[j] # x) - 1

\* Mutant of OfInterest: the directive name is not compared (line 154 left out).
OfInterest_AnyName(cfg, cmd) ==
    cfg.ltype \in { CONFIG_LINE_CMD, CONFIG_LINE_CMD_COMMENT }

\* set_config_value, lines 152-155: the line is a directive named cmd.
OfInterest(cfg, cmd) ==
    /\ cfg.ltype \in { CONFIG_LINE_CMD, CONFIG_LINE_CMD_COMMENT }
    /\ cfg.cmd = cmd

\* Mutant of IsDesiredValue: a remove without values selects nothing (line 160 left out).
IsDesiredValue_NoRemoveAll(cfg, values, remove) ==
    In(cfg.params, values)

\* set_config_value, lines 159-160
IsDesiredValue(cfg, values, remove) ==
    In(cfg.params, values) \/ (remove /\ Len(values) = 0)

\* Mutant of SetLtype: a line that is disabled is deleted from the list instead.
SetLtype_Deletes(data, i, ltype) ==
    IF ltype = CONFIG_LINE_CMD_COMMENT
    THEN [ j \in 1..(Len(data) - 1) |-> IF j < i THEN data[j] ELSE data[j + 1] ]
    ELSE [ j \in 1..Len(data) |->
             IF j = i
             THEN [ idx |-> data[j].idx, raw |-> data[j].raw, ltype |-> ltype,
                    cmd |-> data[j].cmd, params |-> data[j].params,
                    comment |-> data[j].comment ]
             ELSE data[j] ]

\* Mutant of SetLtype: the retyped line is built anew from its name and value,
\* as ConfigLine(ltype=..., cmd=..., params=...) would, and loses its comment.
SetLtype_DropsComment(data, i, ltype) ==
    [ j \in 1..Len(data) |->
        IF j = i
        THEN [ idx |-> data[j].idx, raw |-> data[j].raw, ltype |-> ltype,
               cmd |-> data[j].cmd, params |-> data[j].params, comment |-> << >> ]
        ELSE data[j] ]

\* cfg.ltype = ltype for the line at position i (lines 173, 185, 193)
SetLtype(data, i, ltype) ==
    SubSeq(data, 1, i - 1)
    \o << [ idx |-> data[i].idx, raw |-> data[i].raw, ltype |-> ltype,
            cmd |-> data[i].cmd, params |-> data[i].params, comment |-> data[i].comment ] >>
    \o SubSeq(data, i + 1, Len(data))

\* values_set[k] = True, k counted from 0 (lines 168, 188)
SetValue(values_set, k) ==
    [ j \in 1..Len(values_set) |-> (j = k + 1) \/ values_set[j] ]

\* The state of the loop over the document: the document (its lines are
\* retyped in place), last_cmd_idx, file_changed and values_set.
ScanState(data, last_cmd_idx, file_changed, values_set) ==
    [ data         |-> data,
      last_cmd_idx |-> last_cmd_idx,
      file_changed |-> file_changed,
      values_set   |-> values_set ]

\* Mutant of ScanLine: a disabled line carrying a requested value is left
\* disabled (lines 181-188 left out).
ScanLine_NoPromote(st, i, cmd, values, remove) ==
    LET cfg        == st.data[i]
        is_desired == In(cfg.params, values) \/ (remove /\ Len(values) = 0)
        marked     == IF ~remove /\ In(cfg.params, values)
                      THEN SetValue(st.values_set, Index(values, cfg.params))
                      ELSE st.values_set
    IN  IF ~(cfg.ltype \in { CONFIG_LINE_CMD, CONFIG_LINE_CMD_COMMENT } /\ cfg.cmd = cmd)
        THEN st
        ELSE IF is_desired
        THEN IF cfg.ltype = CONFIG_LINE_CMD /\ ~remove
             THEN ScanState(st.data, i - 1, st.file_changed, marked)
             ELSE IF cfg.ltype = CONFIG_LINE_CMD
             THEN ScanState(SetLtype(st.data, i, CONFIG_LINE_CMD_COMMENT), i - 1,
                            TRUE, st.values_set)
             ELSE IF cfg.ltype = CONFIG_LINE_CMD_COMMENT /\ remove
             THEN ScanState(st.data, i - 1, st.file_changed, st.values_set)
             ELSE ScanState(st.data, i - 1, st.file_changed, st.values_set)
        ELSE IF cfg.ltype = CONFIG_LINE_CMD /\ ~remove
        THEN ScanState(SetLtype(st.data, i, CONFIG_LINE_CMD_COMMENT), i - 1,
                       st.file_changed, st.values_set)
        ELSE ScanState(st.data, i - 1, st.file_changed, st.values_set)

\* Mutant of ScanLine: a remove treats a disabled line like a set does and
\* activates it (the branch of lines 176-179 left out).
ScanLine_RemovePromotes(st, i, cmd, values, remove) ==
    LET cfg        == st.data[i]
        is_desired == In(cfg.params, values) \/ (remove /\ Len(values) = 0)
        marked     == IF ~remove /\ In(cfg.params, values)
                      THEN SetValue(st.values_set, Index(values, cfg.params))
                      ELSE st.values_set
    IN  IF ~(cfg.ltype \in { CONFIG_LINE_CMD, CONFIG_LINE_CMD_COMMENT } /\ cfg.cmd = cmd)
        THEN st
        ELSE IF is_desired
        THEN IF cfg.ltype = CONFIG_LINE_CMD /\ ~remove
             THEN ScanState(st.data, i - 1, st.file_changed, marked)
             ELSE IF cfg.ltype = CONFIG_LINE_CMD
             THEN ScanState(SetLtype(st.data, i, CONFIG_LINE_CMD_COMMENT), i - 1,
                            TRUE, st.values_set)
             ELSE IF cfg.ltype = CONFIG_LINE_CMD_COMMENT /\ remove
             THEN ScanState(SetLtype(st.data, i, CONFIG_LINE_CMD), i - 1, TRUE, marked)
             ELSE ScanState(SetLtype(st.data, i, CONFIG_LINE_CMD), i - 1, TRUE, marked)
        ELSE IF cfg.ltype = CONFIG_LINE_CMD /\ ~remove
        THEN ScanState(SetLtype(st.data, i, CONFIG_LINE_CMD_COMMENT), i - 1,
                       st.file_changed, st.values_set)
        ELSE ScanState(st.data, i - 1, st.file_changed, st.values_set)

\* Mutant of ScanLine: an active line carrying a value that was not requested
\* is left active (lines 190-193 left out).
ScanLine_KeepsStale(st, i, cmd, values, remove) ==
    LET cfg        == st.data[i]
        is_desired == In(cfg.params, values) \/ (remove /\ Len(values) = 0)
        marked     == IF ~remove /\ In(cfg.params, values)
                      THEN [ j \in 1..Len(st.values_set) |->
                               (j = Index(values, cfg.params) + 1) \/ st.values_set[j] ]
                      ELSE st.values_set
        retyped(t) == [ j \in 1..Len(st.data) |->
                          IF j = i
                          THEN [ idx |-> cfg.idx, raw |-> cfg.raw, ltype |-> t, cmd |-> cfg.cmd,
                                 params |-> cfg.params, comment |-> cfg.comment ]
                          ELSE st.data[j] ]
        state(d, c, v) == [ data |-> d, last_cmd_idx |-> i - 1, file_changed |-> c,
                            values_set |-> v ]
    IN  IF ~(cfg.ltype \in { CONFIG_LINE_CMD, CONFIG_LINE_CMD_COMMENT } /\ cfg.cmd = cmd)
        THEN st
        ELSE IF is_desired
        THEN IF cfg.ltype = CONFIG_LINE_CMD /\ ~remove
             THEN state(st.data, st.file_changed, marked)
             ELSE IF cfg.ltype = CONFIG_LINE_CMD
             THEN state(retyped(CONFIG_LINE_CMD_COMMENT), TRUE, st.values_set)
             ELSE IF cfg.ltype = CONFIG_LINE_CMD_COMMENT /\ remove
             THEN state(st.data, st.file_changed, st.values_set)
             ELSE state(retyped(CONFIG_LINE_CMD), TRUE, marked)
        ELSE state(st.data, st.file_changed, st.values_set)

(***************************************************************************)
(* set_config_value, lines 151-193: one iteration of the loop over the     *)
(* document, for the line at position i (idx = i - 1).                     *)
(***************************************************************************)
ScanLine(st, i, cmd, values, remove) ==
    LET cfg        == st.data[i]
        is_desired == IsDesiredValue(cfg, values, remove)
        marked     == IF ~remove /\ In(cfg.params, values)
                      THEN SetValue(st.values_set, Index(values, cfg.params))
                      ELSE st.values_set
    IN  IF ~OfInterest(cfg, cmd) THEN st
        ELSE IF is_desired
        THEN IF cfg.ltype = CONFIG_LINE_CMD /\ ~remove
             THEN ScanState(st.data, i - 1, st.file_changed, marked)
             ELSE IF cfg.ltype = CONFIG_LINE_CMD
             THEN ScanState(SetLtype(st.data, i, CONFIG_LINE_CMD_COMMENT), i - 1,
                            TRUE, st.values_set)
             ELSE IF cfg.ltype = CONFIG_LINE_CMD_COMMENT /\ remove
             THEN ScanState(st.data, i - 1, st.file_changed, st.values_set)
             ELSE ScanState(SetLtype(st.data, i, CONFIG_LINE_CMD), i - 1, TRUE, marked)
        ELSE IF cfg.ltype = CONFIG_LINE_CMD /\ ~remove
        THEN ScanState(SetLtype(st.data, i, CONFIG_LINE_CMD_COMMENT), i - 1,
                       st.file_changed, st.values_set)
        ELSE ScanState(st.data, i - 1, st.file_changed, st.values_set)

\* set_config_value, lines 142-193: the loop from line i on.
RECURSIVE Scan(_, _, _, _, _)
Scan(st, i, cmd, values, remove) ==
    IF i > Len(st.data) THEN st
    ELSE Scan(ScanLine(st, i, cmd, values, remove), i + 1, cmd, values, remove)

\* set_config_value, lines 142-150: the loop's state before the first line.
ScanInit(data, values) ==
    ScanState(data, 0, FALSE, [ i \in 1..Len(values) |-> FALSE ])

\* set_config_value, line 205: the name `value` is bound nowhere (the loop
\* variable is cval), so constructing the new line raises NameError before
\* anything is inserted.
ValueIsBound == FALSE

(***************************************************************************)
(* set_config_value, lines 199-209: the loop that adds the values the scan *)
(* did not find, from value k on (k counted from 0).  A value already set  *)
(* is skipped; the first one that is not reaches line 205.                 *)
(***************************************************************************)
RECURSIVE InsertLoop(_, _, _)
InsertLoop(st, k, values) ==
    IF k >= Len(values) THEN [ raised |-> FALSE, st |-> st ]
    ELSE IF st.values_set[k + 1] THEN InsertLoop(st, k + 1, values)
    ELSE [ raised |-> ~ValueIsBound, st |-> st ]

\* How a call ended
Returned(result) == [ outcome |-> "return", result |-> result ]
Raised(exc) == [ outcome |-> exc, result |-> FALSE ]

NoCall ==
    [ op |-> "none", cmd |-> None, values |-> << >>, remove |-> FALSE, force |-> FALSE,
      end |-> Returned(FALSE) ]

SetCall(cmd, values, remove, end) ==
    [ op |-> "set", cmd |-> cmd, values |-> values, remove |-> remove, force |-> FALSE,
      end |-> end ]

FlushCall(force, end) ==
    [ op |-> "flush", cmd |-> None, values |-> << >>, remove |-> FALSE, force |-> force,
      end |-> end ]

----------------------------------------------------------------------------

\* The process has not been killed.
Alive == call.end.outcome # "killed"

\* OpenVpn.__init__, with the file as the host holds it
Init ==
    /\ file \in Files
    /\ backups = 0
    /\ server_config_data = << >>
    /\ server_config_modified = FALSE
    /\ call = NoCall
    /\ repeated = FALSE
    /\ pre = << >>
    /\ preFile = file
    /\ lastSet = NoCall
    /\ changedSinceFlush = FALSE
    /\ ncalls = 0
    /\ NoProcedure

\* Mutant of FileAfterSet: the call writes the document through to the file.
FileAfterSet_WritesThrough(f, data) ==
    IF data = << >> THEN f
    ELSE << [ i \in 1..Len(data[1]) |-> Raw(data[1][i]) ] >>

\* set_config_value, lines 124-212: the file, which the call opens only to
\* read it (line 140), when the call leaves the document data.
FileAfterSet(f, data) == f

\* set_config_value(cmd, values, remove)
SetConfigValue(cmd, valuesArg, remove) ==
    LET values == NormValues(valuesArg)
        data   == IF server_config_data = << >>
                  THEN LoadConfigFileLines(file)
                  ELSE server_config_data[1]
        st     == Scan(ScanInit(data, values), 1, cmd, values, remove)
        ins    == InsertLoop(st, 0, values)
    IN  /\ ncalls < MaxCalls
        /\ Alive
        /\ ncalls' = ncalls + 1
        /\ UNCHANGED procVars
        /\ preFile' = file
        /\ repeated' = ( /\ call.op = "set" /\ call.end.outcome # "AttributeError"
                         /\ call.cmd = cmd /\ call.values = values /\ call.remove = remove )
        /\ UNCHANGED backups
        /\ IF server_config_data = << >> /\ LoadRaises(file)
           THEN \* line 140: the exception of ConfigLine.build leaves the call
                /\ call' = SetCall(cmd, values, remove, Raised("AttributeError"))
                /\ UNCHANGED << server_config_data, server_config_modified,
                                pre, changedSinceFlush >>
           ELSE /\ pre' = data
                /\ IF remove
                   THEN \* lines 195-197
                        /\ server_config_data' = << st.data >>
                        /\ server_config_modified' = st.file_changed
                        /\ call' = SetCall(cmd, values, remove, Returned(st.file_changed))
                        /\ changedSinceFlush' = (changedSinceFlush \/ st.file_changed)
                   ELSE IF ins.raised
                   THEN \* line 205: the lines the scan retyped stay retyped
                        /\ server_config_data' = << ins.st.data >>
                        /\ call' = SetCall(cmd, values, remove, Raised("NameError"))
                        /\ UNCHANGED << server_config_modified, changedSinceFlush >>
                   ELSE \* lines 211-212
                        /\ server_config_data' = << ins.st.data >>
                        /\ server_config_modified' = ins.st.file_changed
                        /\ call' = SetCall(cmd, values, remove, Returned(ins.st.file_changed))
                        /\ changedSinceFlush' = (changedSinceFlush \/ ins.st.file_changed)
        /\ lastSet' = call'
        /\ file' = FileAfterSet(file, server_config_data')

\* util.safe_create_with_backup(cpath, 'w', 0o644): the existing file is kept
\* as a backup and a new, empty file is opened at the path.
SafeCreateWithBackup(f, n) ==
    [ file |-> << << >> >>, backups |-> IF f = << >> THEN n ELSE n + 1 ]

(***************************************************************************)
(* What the host does to a flush: it lets it run ("ok"), fails a write     *)
(* with an I/O error, or kills the process, in both cases after `written`  *)
(* lines reached the file.                                                 *)
(***************************************************************************)
FlushFates ==
    { [ kind |-> "ok", written |-> 0 ] }
    \cup { [ kind |-> k, written |-> w ] : k \in { "IOError", "killed" }, w \in 0..MaxLines }

\* Mutant of FlushSkipped: the test of the flag is inverted.
FlushSkipped_Inverted(force, modified) == ~force /\ modified

\* update_config_file, line 221: nothing is done
FlushSkipped(force, modified) == ~force /\ ~modified

\* Mutant of FlagAfterFlush: the flag is reset before the file is written.
FlagAfterFlush_ResetFirst(modified, completed) == FALSE

\* update_config_file, line 230: the flag is reset once the with block is left
\* without an exception.
FlagAfterFlush(modified, completed) == IF completed THEN FALSE ELSE modified

\* update_config_file, lines 226-228: the lines written to the handle, in order
Rendered(data) == [ i \in 1..Len(data) |-> Raw(data[i]) ]

(***************************************************************************)
(* update_config_file(force) on the file f with n backups, the document    *)
(* data (<<>> when not loaded) and the flag modified, under the fate the   *)
(* host gives it: the file, the backups and the flag it leaves, and how    *)
(* the call ends.                                                          *)
(***************************************************************************)
FlushOn(f, n, data, modified, force, fate) ==
    LET fh == SafeCreateWithBackup(f, n)
    IN  IF FlushSkipped(force, modified)
        THEN \* lines 221-222
             [ file |-> f, backups |-> n, modified |-> modified, end |-> Returned(FALSE) ]
        ELSE IF data = << >>
        THEN \* line 227: iterating None raises TypeError, the new file is empty
             [ file |-> fh.file, backups |-> fh.backups,
               modified |-> FlagAfterFlush(modified, FALSE), end |-> Raised("TypeError") ]
        ELSE IF fate.kind = "ok"
        THEN \* lines 226-231
             [ file |-> << Rendered(data[1]) >>, backups |-> fh.backups,
               modified |-> FlagAfterFlush(modified, TRUE), end |-> Returned(TRUE) ]
        ELSE \* line 228 raises IOError, or the process is killed there
             [ file |-> << SubSeq(Rendered(data[1]), 1, fate.written) >>,
               backups |-> fh.backups,
               modified |-> FlagAfterFlush(modified, FALSE), end |-> Raised(fate.kind) ]

\* update_config_file(force)
UpdateConfigFile(force, fate) ==
    LET r == FlushOn(file, backups, server_config_data, server_config_modified, force, fate)
    IN  /\ ncalls < MaxCalls
        /\ Alive
        \* the fate matters only to a flush that writes
        /\ fate.kind # "ok" => ( /\ ~FlushSkipped(force, server_config_modified)
                                 /\ server_config_data # << >>
                                 /\ fate.written <= Len(server_config_data[1]) )
        /\ ncalls' = ncalls + 1
        /\ UNCHANGED procVars
        /\ repeated' = FALSE
        /\ preFile' = file
        /\ UNCHANGED << server_config_data, pre, lastSet >>
        /\ file' = r.file
        /\ backups' = r.backups
        /\ server_config_modified' = r.modified
        /\ call' = FlushCall(force, r.end)
        /\ changedSinceFlush' = IF r.end = Returned(TRUE) THEN FALSE ELSE changedSinceFlush

Next ==
    \/ \E cmd \in Cmds, valuesArg \in ValuesArgs, remove \in BOOLEAN :
          SetConfigValue(cmd, valuesArg, remove)
    \/ \E force \in BOOLEAN, fate \in FlushFates : UpdateConfigFile(force, fate)

Spec == Init /\ [][Next]_vars

----------------------------------------------------------------------------
(* Vocabulary of the properties *)

\* The loaded document
Doc == server_config_data[1]

\* The last call was set_config_value and it got past loading the file.
SetRan == call.op = "set" /\ call.end.outcome # "AttributeError"

\* The last call was set_config_value and it returned.
SetReturned == call.op = "set" /\ call.end.outcome = "return"

Active(l) == l.ltype = CONFIG_LINE_CMD
Disabled(l) == l.ltype = CONFIG_LINE_CMD_COMMENT

\* l is a directive line, active or disabled, with directive name cmd.
Named(l, cmd) == (Active(l) \/ Disabled(l)) /\ l.cmd = cmd

Elems(l) == { l[i] : i \in 1..Len(l) }

\* The values that active lines named cmd carry in data.
ActiveValues(data, cmd) ==
    { data[i].params : i \in { j \in 1..Len(data) : Active(data[j]) /\ data[j].cmd = cmd } }

\* What makes a line the line it is, whatever its kind.
Ident(l) == << l.idx, l.raw, l.cmd, l.params, l.comment >>

\* a is b with elements left out.
RECURSIVE IsSubSeq(_, _)
IsSubSeq(a, b) ==
    IF a = << >> THEN TRUE
    ELSE IF b = << >> THEN FALSE
    ELSE IF Head(a) = Head(b) THEN IsSubSeq(Tail(a), Tail(b))
    ELSE IsSubSeq(a, Tail(b))

\* The lines of data that are not directives named cmd, each with its text.
RECURSIVE Others(_, _)
Others(data, cmd) ==
    IF data = << >> THEN << >>
    ELSE IF Named(Head(data), cmd) THEN Others(Tail(data), cmd)
    ELSE << << Head(data), Raw(Head(data)) >> >> \o Others(Tail(data), cmd)

\* The requested values that no line named cmd of data carries, in the order requested.
RECURSIVE Missing(_, _, _)
Missing(data, cmd, values) ==
    IF values = << >> THEN << >>
    ELSE IF \E i \in 1..Len(data) : Named(data[i], cmd) /\ data[i].params = Head(values)
    THEN Missing(data, cmd, Tail(values))
    ELSE << Head(values) >> \o Missing(data, cmd, Tail(values))

\* The position of the last line named cmd in data, 0 if there is none.
LastNamed(data, cmd) ==
    IF \E i \in 1..Len(data) : Named(data[i], cmd)
    THEN CHOOSE i \in 1..Len(data) :
            Named(data[i], cmd) /\ \A j \in (i + 1)..Len(data) : ~Named(data[j], cmd)
    ELSE 0

\* data holds, from position at + 1 on, one active line named cmd per element of vs, in order.
NewLinesAt(data, at, cmd, vs) ==
    /\ Len(data) >= at + Len(vs)
    /\ \A k \in 1..Len(vs) :
          /\ Active(data[at + k])
          /\ data[at + k].cmd = cmd
          /\ data[at + k].params = vs[k]

----------------------------------------------------------------------------
(* C1. Idempotence of set: when set_config_value(name, values) is called    *)
(* twice in a row on a loaded document, the second call returns False and   *)
(* leaves the line sequence as the first call left it.                      *)
C1_Idempotence ==
    ( SetRan /\ ~call.remove /\ repeated )
    => ( call.end = Returned(FALSE) /\ Doc = pre )

(* C2. Convergence: after set_config_value(name, values, remove=False)      *)
(* returns, the values carried by the active lines named `name` are exactly *)
(* the requested values.                                                    *)
C2_Convergence ==
    ( SetReturned /\ ~call.remove )
    => ActiveValues(Doc, call.cmd) = Elems(call.values)

\* A returned set that promoted a requested value and demoted a stale one.
C2_Witness ==
    /\ SetReturned /\ ~call.remove /\ call.values # << >>
    /\ \E i \in 1..Len(pre) :
          Named(pre[i], call.cmd) /\ Active(pre[i]) /\ pre[i].params \notin Elems(call.values)
    /\ \E i \in 1..Len(pre) :
          Named(pre[i], call.cmd) /\ Disabled(pre[i]) /\ pre[i].params \in Elems(call.values)
    /\ ActiveValues(pre, call.cmd) # Elems(call.values)

(* C3. The dirty flag accumulates: if some set_config_value call since load *)
(* or the last flush returned True, server_config_modified is true.         *)
C3_DirtyAccumulates == changedSinceFlush => server_config_modified

(* C4. The return value is accurate: set_config_value returns True exactly  *)
(* when it changed the kind of a line or inserted a line.                   *)
C4_ChangedAccurate == SetReturned => (call.end.result <=> Doc # pre)

(* C5. No deletion: a set_config_value call never makes the document        *)
(* shorter, and every line it found is still there, in order.               *)
C5_NoDeletion ==
    SetRan => /\ Len(Doc) >= Len(pre)
              /\ IsSubSeq([ i \in 1..Len(pre) |-> Ident(pre[i]) ],
                          [ i \in 1..Len(Doc) |-> Ident(Doc[i]) ])

\* A set or remove call that retyped a line of a document of several lines.
C5_Witness == SetRan /\ Len(pre) >= 2 /\ Doc # pre

(* C6. Order preservation: a set_config_value(name, ...) call leaves every  *)
(* line that is not a directive named `name` as it was (kind, name, value,  *)
(* comment, text), in the same relative order.                              *)
C6_OrderPreservation ==
    SetRan => Others(Doc, call.cmd) = Others(pre, call.cmd)

\* A call that retyped a line of a document that also holds a line that is
\* not a directive of that name (blank, comment, or a directive of another name).
C6_Witness ==
    /\ SetRan /\ Doc # pre
    /\ \E i \in 1..Len(pre) : ~Named(pre[i], call.cmd)

(* C7. New-value placement: when no line of the document is named `name`,   *)
(* set_config_value(name, values, remove=False) leaves the lines it found   *)
(* in place and puts one active line per value after the last of them.      *)
C7_PlacementAtEnd ==
    ( SetRan /\ ~call.remove /\ LastNamed(pre, call.cmd) = 0 )
    => /\ Len(Doc) = Len(pre) + Len(call.values)
       /\ SubSeq(Doc, 1, Len(pre)) = pre
       /\ NewLinesAt(Doc, Len(pre), call.cmd, call.values)

(* C8. Insertion anchor: when the directive occurs in the document, every   *)
(* requested value no line carries becomes a new active line right after    *)
(* the last line named `name`, the new lines in the order requested.        *)
C8_InsertionAnchor ==
    ( SetRan /\ ~call.remove /\ LastNamed(pre, call.cmd) > 0 )
    => LET ms == Missing(pre, call.cmd, call.values)
       IN  /\ Len(Doc) = Len(pre) + Len(ms)
           /\ NewLinesAt(Doc, LastNamed(pre, call.cmd), call.cmd, ms)

(* C9. Disable-not-delete: a line that a set or remove call demotes or      *)
(* promotes keeps its place, name, value and comment; only its kind         *)
(* changes, between active and disabled.  A removed active directive is     *)
(* afterwards the same line, disabled.                                      *)
C9_DisableNotDelete ==
    SetRan =>
       \A i \in 1..Len(pre) :
          /\ i <= Len(Doc)
          /\ Doc[i].ltype # pre[i].ltype
                => /\ Doc[i] = [ pre[i] EXCEPT !.ltype = Doc[i].ltype ]
                   /\ { Doc[i].ltype, pre[i].ltype } = { CONFIG_LINE_CMD, CONFIG_LINE_CMD_COMMENT }
          /\ ( call.remove /\ Named(pre[i], call.cmd) /\ Active(pre[i])
               /\ (call.values = << >> \/ pre[i].params \in Elems(call.values)) )
                => Doc[i] = [ pre[i] EXCEPT !.ltype = CONFIG_LINE_CMD_COMMENT ]

\* A remove call that disabled an active line carrying a trailing comment.
C9_Witness ==
    /\ SetReturned /\ call.remove
    /\ \E i \in 1..Len(pre) :
          /\ Active(pre[i]) /\ Disabled(Doc[i])
          /\ pre[i].comment # None /\ pre[i].comment # << >>

(* C10. Remove semantics: after set_config_value(name, values, remove=True) *)
(* no active line named `name` carries one of the values (or any value,     *)
(* when none is given), and the active lines named `name` that carry        *)
(* another value are still active.                                          *)
C10_RemoveSemantics ==
    ( SetRan /\ call.remove )
    => /\ \A i \in 1..Len(Doc) :
             ( Named(Doc[i], call.cmd) /\ Active(Doc[i]) )
                => ( call.values # << >> /\ Doc[i].params \notin Elems(call.values) )
       /\ \A i \in 1..Len(pre) :
             ( /\ Named(pre[i], call.cmd) /\ Active(pre[i])
               /\ call.values # << >> /\ pre[i].params \notin Elems(call.values) )
                => Doc[i] = pre[i]

\* A remove of one value that disabled its line and left another value of the
\* same directive active.
C10_Witness ==
    /\ SetReturned /\ call.remove /\ call.values # << >>
    /\ \E i \in 1..Len(pre) : Named(pre[i], call.cmd) /\ Active(pre[i]) /\ Disabled(Doc[i])
    /\ \E i \in 1..Len(pre) : Named(pre[i], call.cmd) /\ Active(pre[i]) /\ Active(Doc[i])

\* A remove with no value given that disabled two active lines.
C10_WitnessAll ==
    /\ SetReturned /\ call.remove /\ call.values = << >>
    /\ \E i, j \in 1..Len(pre) :
          /\ i # j
          /\ Named(pre[i], call.cmd) /\ Active(pre[i]) /\ Disabled(Doc[i])
          /\ Named(pre[j], call.cmd) /\ Active(pre[j]) /\ Disabled(Doc[j])

----------------------------------------------------------------------------

\* The document is loaded.
Loaded == server_config_data # << >>

\* The step is a call of update_config_file.
FlushStep == ncalls' # ncalls /\ call'.op = "flush"

(* C11. Flush is a no-op on a clean document: update_config_file(force=False) *)
(* while server_config_modified is False writes no file and makes no backup,  *)
(* returns False, and leaves the document and the flag as they were.          *)
C11_FlushNoop ==
    [][ ( FlushStep /\ ~call'.force /\ ~server_config_modified )
        => /\ call'.end = Returned(FALSE)
           /\ file' = file
           /\ backups' = backups
           /\ server_config_data' = server_config_data
           /\ server_config_modified' = server_config_modified ]_vars

\* An unforced flush of a loaded, clean document whose file exists returned
\* False.
C11_Witness ==
    /\ call.op = "flush" /\ ~call.force /\ call.end = Returned(FALSE)
    /\ Loaded /\ ~server_config_modified
    /\ file # << >> /\ file = preFile /\ backups = 0

(* C12. Crash-safe flush: if the process is killed at any point during        *)
(* update_config_file, the file at the configuration path holds either the    *)
(* complete previous content or the complete new content.                     *)
C12_CrashSafeFlush ==
    ( call.op = "flush" /\ call.end.outcome = "killed" )
    => \/ file = preFile
       \/ Loaded /\ file = << Rendered(Doc) >>

(* C13. The dirty flag reflects the outcome of the flush: a flush that        *)
(* completes returns True and leaves server_config_modified False; a flush    *)
(* whose write raises an I/O error ends with that error and leaves the flag   *)
(* as it was, so a flag that was True is still True.                          *)
C13_FlagReflectsFlush ==
    [][ FlushStep
        => /\ ( call'.end.outcome = "return"
                /\ ~FlushSkipped(call'.force, server_config_modified) )
              => ( call'.end = Returned(TRUE) /\ ~server_config_modified' )
           /\ call'.end.outcome = "IOError"
              => server_config_modified' = server_config_modified ]_vars

\* A flush of a modified document failed with an I/O error and the flag is
\* still True.
C13_Witness ==
    /\ call.op = "flush" /\ call.end.outcome = "IOError"
    /\ server_config_modified /\ changedSinceFlush

\* The kinds of line there are.
Kinds == { CONFIG_LINE_BLANK, CONFIG_LINE_COMMENT, CONFIG_LINE_CMD_COMMENT, CONFIG_LINE_CMD }

(* C14. Round-trip fidelity: loading a file and flushing it with force=True,  *)
(* with no line changed in between, writes back exactly the lines the file    *)
(* held.                                                                      *)
C14_RoundTrip ==
    ( /\ call.op = "flush" /\ call.force /\ call.end = Returned(TRUE)
      /\ preFile # << >> /\ ~LoadRaises(preFile)
      /\ Loaded /\ Doc = LoadConfigFileLines(preFile) )
    => file = preFile

(* C15. No drift on re-parse: for every directive line l of the document,     *)
(* ConfigLine.build(l.raw) returns a line of the same kind, name and value.   *)
C15_NoDrift ==
    Loaded
    => \A i \in 1..Len(Doc) :
          ( Active(Doc[i]) \/ Disabled(Doc[i]) )
             => /\ ~BuildRaises(Raw(Doc[i]))
                /\ Build(Raw(Doc[i]), Doc[i].idx).ltype = Doc[i].ltype
                /\ Build(Raw(Doc[i]), Doc[i].idx).cmd = Doc[i].cmd
                /\ Build(Raw(Doc[i]), Doc[i].idx).params = Doc[i].params

(* C16. Classification is total: ConfigLine.build raises on no line of the    *)
(* file a call loads, a bare directive token included, and gives each line    *)
(* one of the four kinds.                                                     *)
C16_ClassificationTotal ==
    ( call.op = "set" /\ preFile # << >> )
    => /\ call.end.outcome # "AttributeError"
       /\ \A i \in 1..Len(preFile[1]) :
             /\ ~BuildRaises(preFile[1][i])
             /\ Build(preFile[1][i], i - 1).ltype \in Kinds

----------------------------------------------------------------------------
(* Calls of set_config_value with arguments outside its documented domain *)

\* A directive name with a character outside [a-zA-Z0-9\-_].
BadCmd == << "p", "!" >>

\* A value that is not a string (the integer 5); it equals no text.
NotAString == << "int:5" >>

AllCmds == Cmds \cup { BadCmd }

AllValuesArgs ==
    ValuesArgs \cup { [ type |-> "other", str |-> NotAString, list |-> << >> ] }

NextArgs ==
    \E cmd \in AllCmds, valuesArg \in AllValuesArgs, remove \in BOOLEAN :
       SetConfigValue(cmd, valuesArg, remove)

SpecArgs == Init /\ [][NextArgs]_vars

\* The arguments of the call c are outside the domain: the name has a
\* character outside the class, or a value is not a string.
InvalidArgs(c) ==
    \/ \E i \in 1..Len(c.cmd) : c.cmd[i] \notin NameChars
    \/ \E i \in 1..Len(c.values) : c.values[i] = NotAString

(* C17. Invalid arguments fail fast: set_config_value called with a value     *)
(* that is not a string or a list of strings, or with a name that has a       *)
(* character outside [a-zA-Z0-9-_], raises before any line of the document    *)
(* is changed and leaves server_config_modified as it was.                    *)
C17_InvalidArgsFailFast ==
    [][ ( ncalls' # ncalls /\ call'.op = "set" /\ InvalidArgs(call') )
        => /\ call'.end.outcome # "return"
           /\ server_config_modified' = server_config_modified
           /\ server_config_data' # << >> => server_config_data'[1] = pre' ]_vars

(* C18. set_config_value never raises for valid arguments: on any loaded      *)
(* document, with a valid name and valid values, the call returns, also when  *)
(* lines have to be inserted.                                                 *)
C18_NeverRaises ==
    ( SetRan /\ ~InvalidArgs(call) ) => call.end.outcome = "return"

(* C19. A missing file is an empty document: loading it gives an empty        *)
(* document without an error, and set_config_value(name, value) followed by   *)
(* update_config_file creates a file whose only lines are the requested       *)
(* active directives.                                                         *)
C19_MissingFileEmptyDocument ==
    /\ ( call.op = "set" /\ ncalls = 1 /\ preFile = << >> )
       => ( call.end.outcome # "AttributeError" /\ pre = << >> )
    /\ ( /\ call.op = "flush" /\ call.end.outcome \notin { "IOError", "killed" }
         /\ ncalls = 2 /\ preFile = << >>
         /\ lastSet.op = "set" /\ ~lastSet.remove /\ lastSet.values # << >> )
       => /\ file # << >>
          /\ ~LoadRaises(file)
          /\ Len(LoadConfigFileLines(file)) = Len(lastSet.values)
          /\ \A i \in 1..Len(LoadConfigFileLines(file)) :
                /\ Active(LoadConfigFileLines(file)[i])
                /\ LoadConfigFileLines(file)[i].cmd = lastSet.cmd
          /\ ActiveValues(LoadConfigFileLines(file), lastSet.cmd) = Elems(lastSet.values)

----------------------------------------------------------------------------
(* configure_server *)

\* configure_server, lines 262-268: the directives it sets, in order
\* (port 1194, proto udp, cipher AES-256-CBC, dh dh2048.pem, ca ca.crt,
\* cert server.crt, key server.key).
ServerConfig ==
    << [ cmd |-> << "p", "o", "r", "t" >>,
         value |-> << "1", "1", "9", "4" >> ],
       [ cmd |-> << "p", "r", "o", "t", "o" >>,
         value |-> << "u", "d", "p" >> ],
       [ cmd |-> << "c", "i", "p", "h", "e", "r" >>,
         value |-> << "A", "E", "S", "-", "2", "5", "6", "-", "C", "B", "C" >> ],
       [ cmd |-> << "d", "h" >>,
         value |-> << "d", "h", "2", "0", "4", "8", ".", "p", "e", "m" >> ],
       [ cmd |-> << "c", "a" >>,
         value |-> << "c", "a", ".", "c", "r", "t" >> ],
       [ cmd |-> << "c", "e", "r", "t" >>,
         value |-> << "s", "e", "r", "v", "e", "r", ".", "c", "r", "t" >> ],
       [ cmd |-> << "k", "e", "y" >>,
         value |-> << "s", "e", "r", "v", "e", "r", ".", "k", "e", "y" >> ] >>

\* set_config_value(cmd, values, remove) on a loaded document: the document
\* and the flag it leaves, and how it ends.
SetOn(data, modified, cmd, valuesArg, remove) ==
    LET values == NormValues(valuesArg)
        st     == Scan(ScanInit(data, values), 1, cmd, values, remove)
        ins    == InsertLoop(st, 0, values)
    IN  IF remove
        THEN \* lines 195-197
             [ data |-> st.data, modified |-> st.file_changed,
               end |-> Returned(st.file_changed) ]
        ELSE IF ins.raised
        THEN \* line 205
             [ data |-> ins.st.data, modified |-> modified, end |-> Raised("NameError") ]
        ELSE \* lines 211-212
             [ data |-> ins.st.data, modified |-> ins.st.file_changed,
               end |-> Returned(ins.st.file_changed) ]

\* configure_server, lines 262-268 from the k-th call on; an exception ends
\* the sequence.
RECURSIVE ConfigureFrom(_, _)
ConfigureFrom(k, s) ==
    IF k > Len(ServerConfig) THEN s
    ELSE LET r == SetOn(s.data, s.modified, ServerConfig[k].cmd,
                        [ type |-> "str", str |-> ServerConfig[k].value, list |-> << >> ],
                        FALSE)
         IN  IF r.end.outcome # "return" THEN r ELSE ConfigureFrom(k + 1, r)

ConfigureCall(end) ==
    [ op |-> "configure", cmd |-> None, values |-> << >>, remove |-> FALSE,
      force |-> FALSE, end |-> end ]

(***************************************************************************)
(* configure_server().  \E over a one-element set names a value: loaded is *)
(* the document as the first set_config_value finds or loads it, r what    *)
(* the seven calls leave, fl what the flush of line 269 leaves under the   *)
(* fate the host gives it.                                                 *)
(***************************************************************************)
ConfigureServer ==
    /\ ncalls < MaxCalls
    /\ Alive
    /\ ncalls' = ncalls + 1
    /\ UNCHANGED procVars
    /\ repeated' = FALSE
    /\ preFile' = file
    /\ UNCHANGED lastSet
    /\ IF server_config_data = << >> /\ LoadRaises(file)
       THEN \* line 140, in the first set_config_value
            /\ call' = ConfigureCall(Raised("AttributeError"))
            /\ UNCHANGED << file, backups, server_config_data, server_config_modified,
                            pre, changedSinceFlush >>
       ELSE \E loaded \in { IF server_config_data = << >>
                            THEN LoadConfigFileLines(file)
                            ELSE server_config_data[1] } :
            \E r \in { ConfigureFrom(1, [ data |-> loaded,
                                          modified |-> server_config_modified,
                                          end |-> Returned(FALSE) ]) } :
               /\ pre' = loaded
               /\ server_config_data' = << r.data >>
               /\ IF r.end.outcome # "return"
                  THEN \* the exception of a set_config_value leaves the call
                       /\ call' = ConfigureCall(r.end)
                       /\ server_config_modified' = r.modified
                       /\ UNCHANGED << file, backups >>
                       /\ changedSinceFlush' = (changedSinceFlush \/ r.data # loaded)
                  ELSE \* line 269
                       \E fate \in FlushFates :
                       \E fl \in { FlushOn(file, backups, << r.data >>, r.modified,
                                           FALSE, fate) } :
                          \* the fate matters only to a flush that writes
                          /\ fate.kind # "ok" => ( /\ ~FlushSkipped(FALSE, r.modified)
                                                   /\ fate.written <= Len(r.data) )
                          /\ call' = ConfigureCall(fl.end)
                          /\ file' = fl.file
                          /\ backups' = fl.backups
                          /\ server_config_modified' = fl.modified
                          /\ changedSinceFlush' =
                                IF fl.end = Returned(TRUE) THEN FALSE
                                ELSE (changedSinceFlush \/ r.data # loaded)

\* How a line of server.conf may stand for a directive of ServerConfig.
LineForms == { "active", "disabled", "absent" }

\* The lines of a server.conf that has the directives of ServerConfig from
\* the k-th on in the forms f gives them.
RECURSIVE ServerLines(_, _)
ServerLines(f, k) ==
    IF k > Len(ServerConfig) THEN << >>
    ELSE LET text == ServerConfig[k].cmd \o << " " >> \o ServerConfig[k].value
         IN  ( IF f[k] = "active" THEN << text >>
               ELSE IF f[k] = "disabled" THEN << << ";" >> \o text >>
               ELSE << >> )
             \o ServerLines(f, k + 1)

\* Files with every directive of ServerConfig, active or disabled, and files
\* that lack one of them.
ServerFiles ==
    { << ServerLines(f, 1) >> :
         f \in { g \in [ 1..Len(ServerConfig) -> LineForms ] :
                    \A i, j \in 1..Len(ServerConfig) :
                       ( g[i] = "absent" /\ g[j] = "absent" ) => i = j } }

InitServer ==
    /\ file \in ServerFiles
    /\ backups = 0
    /\ server_config_data = << >>
    /\ server_config_modified = FALSE
    /\ call = NoCall
    /\ repeated = FALSE
    /\ pre = << >>
    /\ preFile = file
    /\ lastSet = NoCall
    /\ changedSinceFlush = FALSE
    /\ ncalls = 0
    /\ NoProcedure

NextServer == ConfigureServer

SpecServer == InitServer /\ [][NextServer]_vars

(* C20. configure_server reports and persists changes: it flushes and         *)
(* returns True whenever at least one of its seven set_config_value calls     *)
(* changed the document, and returns False only when none of them did.        *)
C20_ConfigureServerReports ==
    ( call.op = "configure" /\ Loaded /\ call.end.outcome \notin { "IOError", "killed" } )
    => /\ Doc # pre => ( call.end = Returned(TRUE) /\ file = << Rendered(Doc) >> )
       /\ call.end = Returned(FALSE) => Doc = pre

----------------------------------------------------------------------------

\* The lines of data named cmd of kind ltype that carry the value v.
Carrying(data, cmd, ltype, v) ==
    { i \in 1..Len(data) : data[i].ltype = ltype /\ data[i].cmd = cmd /\ data[i].params = v }

(* C21. Promotion instead of insertion: when a disabled line named `name`     *)
(* carries a requested value that no active line carries,                     *)
(* set_config_value(name, value, remove=False) makes that line active with    *)
(* the same value and adds no line; the call returns True (a call that also   *)
(* asks for further values returns True if it returns).                       *)
C21_Promotion ==
    ( /\ SetRan /\ ~call.remove
      /\ \E k \in 1..Len(call.values) :
            /\ Carrying(pre, call.cmd, CONFIG_LINE_CMD_COMMENT, call.values[k]) # { }
            /\ Carrying(pre, call.cmd, CONFIG_LINE_CMD, call.values[k]) = { } )
    => /\ Len(Doc) = Len(pre)
       /\ \A k \in 1..Len(call.values) :
             Carrying(pre, call.cmd, CONFIG_LINE_CMD, call.values[k]) = { }
             => \A i \in Carrying(pre, call.cmd, CONFIG_LINE_CMD_COMMENT, call.values[k]) :
                   /\ Active(Doc[i])
                   /\ Ident(Doc[i]) = Ident(pre[i])
       /\ call.end.outcome = "return" => call.end.result
       /\ Len(call.values) = 1 => call.end = Returned(TRUE)

\* A set of one value returned True after it promoted the disabled line that
\* carried the value.
C21_Witness ==
    /\ SetReturned /\ ~call.remove /\ Len(call.values) = 1 /\ call.end.result
    /\ Carrying(pre, call.cmd, CONFIG_LINE_CMD, call.values[1]) = { }
    /\ \E i \in Carrying(pre, call.cmd, CONFIG_LINE_CMD_COMMENT, call.values[1]) :
          Active(Doc[i])
    /\ Len(Doc) = Len(pre)

\* The active lines of data a remove of values for cmd is aimed at.
Targeted(data, cmd, values) ==
    { i \in 1..Len(data) :
         /\ Named(data[i], cmd) /\ Active(data[i])
         /\ ( values = << >> \/ data[i].params \in Elems(values) ) }

(* C22. Remove never adds or activates: set_config_value with remove=True     *)
(* leaves the number of lines as it was, turns no disabled line into an       *)
(* active one, and returns False when every occurrence it is aimed at is      *)
(* already disabled or absent.                                                *)
C22_RemoveNeverAdds ==
    ( SetRan /\ call.remove )
    => /\ Len(Doc) = Len(pre)
       /\ \A i \in 1..Len(pre) : Disabled(pre[i]) => ~Active(Doc[i])
       /\ Targeted(pre, call.cmd, call.values) = { } => call.end = Returned(FALSE)

\* A remove aimed at a value that only a disabled line carries returned False
\* and left the line disabled.
C22_Witness ==
    /\ SetReturned /\ call.remove /\ call.end = Returned(FALSE)
    /\ Targeted(pre, call.cmd, call.values) = { }
    /\ \E i \in 1..Len(pre) :
          /\ Named(pre[i], call.cmd) /\ Disabled(pre[i]) /\ Disabled(Doc[i])
          /\ ( call.values = << >> \/ pre[i].params \in Elems(call.values) )

----------------------------------------------------------------------------
(* The classification of single lines *)

\* The characters the lines are made of.
LineChars == { ";", "#", "p", "1", " " }

\* Every line of at most MaxLineLen characters.
BuildLines == SeqsUpTo(LineChars, MaxLineLen)

\* A server.conf of one line.
InitLines ==
    /\ file \in { << << l >> >> : l \in BuildLines }
    /\ backups = 0
    /\ server_config_data = << >>
    /\ server_config_modified = FALSE
    /\ call = NoCall
    /\ repeated = FALSE
    /\ pre = << >>
    /\ preFile = file
    /\ lastSet = NoCall
    /\ changedSinceFlush = FALSE
    /\ ncalls = 0
    /\ NoProcedure

\* The calls that load the file: set_config_value(cmd, None, remove).
NextLines ==
    \E cmd \in Cmds, remove \in BOOLEAN :
       SetConfigValue(cmd, [ type |-> "None", str |-> None, list |-> << >> ], remove)

SpecLines == InitLines /\ [][NextLines]_vars

\* t is a directive: white space or none, a name token, white space, and a
\* value of at least one character.
IsDirectiveText(t) ==
    \E i \in 0..Len(t), j \in 1..Len(t), k \in 2..Len(t) :
       /\ i < j /\ j < k /\ k < Len(t)
       /\ \A x \in 1..i : t[x] \in WhiteSpace
       /\ \A x \in (i + 1)..j : t[x] \in NameChars
       /\ \A x \in (j + 1)..k : t[x] \in WhiteSpace

\* The first call has loaded the one line of the file; its text without the
\* white space around it starts with the character c.
LoadedLineStarts(c) ==
    /\ ncalls = 1 /\ call.op = "set"
    /\ Strip(file[1][1]) # << >>
    /\ Head(Strip(file[1][1])) = c

(* C23. Classification of semicolon lines, first match wins: a line whose     *)
(* first non-blank character is `#` is a comment; a line that starts with `;` *)
(* is a disabled directive exactly when the text after the `;` is a directive *)
(* (name token, white space, non-empty value) and a comment otherwise, so `;` *)
(* alone and `;name` without a value are comments.                            *)
C23_SemicolonLines ==
    /\ LoadedLineStarts("#")
       => ( SetRan /\ pre[1].ltype = CONFIG_LINE_COMMENT )
    /\ LoadedLineStarts(";")
       => /\ SetRan
          /\ pre[1].ltype = IF IsDirectiveText(Tail(Strip(file[1][1])))
                            THEN CONFIG_LINE_CMD_COMMENT
                            ELSE CONFIG_LINE_COMMENT

\* The line `;p`, a disabled name without a value, was loaded as a comment.
C23_Witness ==
    /\ LoadedLineStarts(";")
    /\ Strip(file[1][1]) = << ";", "p" >>
    /\ SetRan /\ pre[1].ltype = CONFIG_LINE_COMMENT

----------------------------------------------------------------------------

(* C24. Mutations stay in memory until the flush: no set_config_value call,   *)
(* set or remove, writes the configuration file or makes a backup, and the    *)
(* content of the file changes only in a step of update_config_file.          *)
C24_InMemoryUntilFlush ==
    [][ /\ ( ncalls' # ncalls /\ call'.op = "set" )
           => ( file' = file /\ backups' = backups )
        /\ file' # file => ( ncalls' # ncalls /\ call'.op = "flush" ) ]_vars

\* A set_config_value call changed a line of the document and the file still
\* holds what was loaded.
C24_Witness ==
    /\ SetRan /\ Doc # pre
    /\ file # << >> /\ file = preFile /\ backups = 0
    /\ ~LoadRaises(file) /\ LoadConfigFileLines(file) # Doc

(* C25. No duplicate active values: after set_config_value(name, values,      *)
(* remove=False) with pairwise distinct values has returned, each requested   *)
(* value is carried by exactly one active line named `name`, also when the    *)
(* document held several lines with that name and value before.               *)
C25_NoDuplicateActiveValues ==
    ( /\ SetReturned /\ ~call.remove
      /\ \A j, k \in 1..Len(call.values) : call.values[j] = call.values[k] => j = k )
    => \A k \in 1..Len(call.values) :
          Cardinality(Carrying(Doc, call.cmd, CONFIG_LINE_CMD, call.values[k])) = 1

(* C26. A forced flush before the load is harmless: update_config_file(       *)
(* force=True) on an object whose document was never loaded                   *)
(* (server_config_data is None) leaves the content of an existing             *)
(* configuration file as it was.                                              *)
C26_ForcedFlushBeforeLoad ==
    ( call.op = "flush" /\ call.force /\ ~Loaded /\ preFile # << >> )
    => file = preFile

(* C25, amended. After set_config_value(name, values, remove=False) with      *)
(* pairwise distinct values has returned, each requested value is carried by  *)
(* at least one active line named `name`: by every line named `name` that     *)
(* carried it before, active or disabled, and by no other line.               *)
C25_EveryCarrierActive ==
    ( /\ SetReturned /\ ~call.remove
      /\ \A j, k \in 1..Len(call.values) : call.values[j] = call.values[k] => j = k )
    => \A k \in 1..Len(call.values) :
          /\ Carrying(Doc, call.cmd, CONFIG_LINE_CMD, call.values[k]) # { }
          /\ Carrying(Doc, call.cmd, CONFIG_LINE_CMD, call.values[k])
             = Carrying(pre, call.cmd, CONFIG_LINE_CMD, call.values[k])
               \cup Carrying(pre, call.cmd, CONFIG_LINE_CMD_COMMENT, call.values[k])

\* A set returned on a document where an active and a disabled line carried
\* the requested value: both lines are active.
C25_Witness ==
    /\ SetReturned /\ ~call.remove /\ Len(call.values) = 1
    /\ Carrying(pre, call.cmd, CONFIG_LINE_CMD, call.values[1]) # { }
    /\ Carrying(pre, call.cmd, CONFIG_LINE_CMD_COMMENT, call.values[1]) # { }
    /\ Cardinality(Carrying(Doc, call.cmd, CONFIG_LINE_CMD, call.values[1])) = 2

----------------------------------------------------------------------------
(***************************************************************************)
(* VpnInstaller.init_main_try, clivpn.py:83-199.                           *)
(*                                                                         *)
(* pc is the index in MainSteps of the statement the method is about to    *)
(* run, res its variable res, ret its return value, steps the calls it     *)
(* has made with the result code each yielded (0 for a call whose result   *)
(* is not a code).                                                         *)
(***************************************************************************)

\* Result codes of the installer's steps are 0..MaxCode
MaxCode == 2

Codes == 0..MaxCode

\* OpenVpn and its file are not touched by the procedures below.
OpenVpnUnused ==
    /\ file = << >>
    /\ backups = 0
    /\ server_config_data = << >>
    /\ server_config_modified = FALSE
    /\ call = NoCall
    /\ repeated = FALSE
    /\ pre = << >>
    /\ preFile = << >>
    /\ lastSet = NoCall
    /\ changedSinceFlush = FALSE
    /\ ncalls = 0

\* Installer.return_code(code): hands the code back to the caller.
return_code(code) == code

\* A call whose result is not tested
Plain(name) == [ call |-> name, yields |-> FALSE, returns |-> FALSE ]

\* res = call(); if res != 0: self.return_code(res)
Noted(name) == [ call |-> name, yields |-> TRUE, returns |-> FALSE ]

\* res = call(); if res != 0: return self.return_code(res)
Checked(name) == [ call |-> name, yields |-> TRUE, returns |-> TRUE ]

\* The calls of init_main_try in the order of the source
MainSteps ==
    << Plain("init_services"),
       Plain("load_auth_types"),
       Noted("init_prompt_user"),
       Noted("init_test_environment"),
       Checked("install_check_memory"),
       Checked("init_le_vpc_check"),
       Checked("init_enigma_registration"),
       Checked("init_domains_check"),
       Checked("init_install_os_hooks"),
       Plain("write_configuration"),
       Checked("init_softhsm"),
       Checked("init_install_ejbca"),
       Plain("vpn_create_ca"),
       Plain("vpn_create_profiles"),
       Plain("vpn_create_server_certs"),
       Plain("vpn_create_crl"),
       Plain("vpn_get_server_cert_paths"),
       Plain("ovpn.install"),
       Plain("ovpn.generate_dh_group"),
       Plain("ovpn.configure_server"),
       Plain("ovpn.store_server_cert"),
       Plain("vpn_get_crl_path"),
       Plain("ovpn.configure_crl"),
       Plain("ovpn.enable"),
       Plain("ovpn.switch"),
       Plain("vpn_install_cron"),
       Checked("init_le_install"),
       Plain("init_celebrate"),
       Plain("copy_p12_file"),
       Plain("init_show_p12_info"),
       Plain("init_test_admin_port_reachability") >>

\* A call made, and the code it yielded
Made(name, code) == [ call |-> name, res |-> code ]

InitMainTry ==
    /\ OpenVpnUnused
    /\ self = [ class |-> "VpnInstaller" ]
    /\ pc = 1
    /\ attempt = 0
    /\ res = 0
    /\ steps = << >>
    /\ ret = << >>

\* A statement that calls a collaborator and does not test what it gives
PlainStep ==
    /\ ret = << >>
    /\ pc \in 1..Len(MainSteps)
    /\ ~MainSteps[pc].yields
    /\ steps' = Append(steps, Made(MainSteps[pc].call, 0))
    /\ pc' = pc + 1
    /\ UNCHANGED << self, attempt, res, ret, ovpnVars >>

\* res = step(); if res != 0: [return] self.return_code(res)
ResultStep(code) ==
    /\ ret = << >>
    /\ pc \in 1..Len(MainSteps)
    /\ MainSteps[pc].yields
    /\ res' = code
    /\ steps' = Append(steps, Made(MainSteps[pc].call, code))
    /\ IF code # 0 /\ MainSteps[pc].returns
       THEN /\ ret' = << return_code(code) >>
            /\ pc' = pc
       ELSE \* the value of return_code(res) of lines 97 and 104 is dropped
            /\ ret' = ret
            /\ pc' = pc + 1
    /\ UNCHANGED << self, attempt, ovpnVars >>

\* line 199: return self.return_code(0)
ReturnZero ==
    /\ ret = << >>
    /\ pc = Len(MainSteps) + 1
    /\ ret' = << return_code(0) >>
    /\ UNCHANGED << self, pc, attempt, res, steps, ovpnVars >>

NextInstaller ==
    \/ PlainStep
    \/ \E code \in Codes : ResultStep(code)
    \/ ReturnZero

SpecInstaller == InitMainTry /\ [][NextInstaller]_vars

\* The steps whose result code decides whether the installer goes on
GatingSteps ==
    { "init_prompt_user", "init_test_environment", "install_check_memory",
      "init_le_vpc_check", "init_enigma_registration", "init_domains_check",
      "init_install_os_hooks", "init_softhsm", "init_install_ejbca" }

\* C27: once one of the nine gating steps of init_main_try has yielded a
\* non-zero code, the method has returned that code and that step is the
\* last call it made: no VPN CA is created and OpenVPN is neither installed
\* nor configured.
C27_AbortsOnFirstFailure ==
    \A k \in 1..Len(steps) :
       ( steps[k].call \in GatingSteps /\ steps[k].res # 0 )
          => ( /\ ret = << steps[k].res >>
               /\ k = Len(steps) )

----------------------------------------------------------------------------
(***************************************************************************)
(* Jboss._install (deployers/jboss.py:157-197), Ejabberd._install and      *)
(* Ejabberd.install (deployers/ejabberd.py:99-156).                        *)
(*                                                                         *)
(* self is the deployer with the packager of its host and the number of    *)
(* provisioning servers, attempt the index of provserver in                *)
(* PROVISIONING_SERVERS, ret how _install ended and res how                *)
(* Ejabberd.install ended.                                                 *)
(***************************************************************************)

\* PROVISIONING_SERVERS holds 1..MaxServers servers
MaxServers == 3

ServerCounts == 1..MaxServers

\* sysconfig.get_packager(): osutil.PKG_YUM, osutil.PKG_APT or something else
Packagers == { "yum", "apt", "other" }

\* How a collaborator call ends: it returns, or raises errors.SetupError or
\* another exception
Outcomes == { "ok", "SetupError", "Exception" }

\* A function that ends without a return statement hands None to its caller.
ReturnedNone == [ outcome |-> "None", result |-> FALSE ]

\* The call returned 0
ReturnedZero(end) == end.outcome = "return" /\ end.result = 0

\* A collaborator call made for the provserver of index k
Did(name, k, outcome) == [ call |-> name, server |-> k, outcome |-> outcome ]

InitInstall ==
    /\ OpenVpnUnused
    /\ self \in { [ class |-> c, packager |-> p, servers |-> n ] :
                     c \in { "Jboss", "Ejabberd" }, p \in Packagers, n \in ServerCounts }
    /\ pc = IF self.class = "Ejabberd" THEN "packager" ELSE "for"
    /\ attempt = 0
    /\ res = << >>
    /\ steps = << >>
    /\ ret = << >>

\* ejabberd.py:104-110
GetPackager ==
    /\ pc = "packager"
    /\ IF self.packager \in { "yum", "apt" }
       THEN /\ pc' = "for"
            /\ ret' = ret
       ELSE /\ pc' = "done"
            /\ ret' = << Raised("EnvError") >>
    /\ UNCHANGED << self, attempt, res, steps, ovpnVars >>

\* for provserver in PROVISIONING_SERVERS: ... tmpdir = util.safe_new_dir(...)
\* (jboss.py:165-167, ejabberd.py:114-116); an exception here reaches the
\* outer handler (jboss.py:193-196, ejabberd.py:142-145)
ForProvserver(outcome) ==
    /\ pc = "for"
    /\ IF attempt < self.servers
       THEN /\ attempt' = attempt + 1
            /\ steps' = Append(steps, Did("safe_new_dir", attempt + 1, outcome))
            /\ IF outcome = "ok"
               THEN /\ pc' = "download"
                    /\ ret' = ret
               ELSE /\ pc' = "done"
                    /\ ret' = << Raised("SetupError") >>
       ELSE \* the loop is exhausted and the function ends without a return
            /\ outcome = "ok"
            /\ pc' = "done"
            /\ ret' = << ReturnedNone >>
            /\ UNCHANGED << attempt, steps >>
    /\ UNCHANGED << self, res, ovpnVars >>

\* self._download_file(url, archive_path, attempts=attempts)
\* (jboss.py:174, ejabberd.py:123)
Download(outcome) ==
    /\ pc = "download"
    /\ steps' = Append(steps, Did("download", attempt, outcome))
    /\ pc' = IF outcome = "ok" THEN "deploy" ELSE "finally"
    /\ UNCHANGED << self, attempt, res, ret, ovpnVars >>

\* self._deploy_downloaded(archive_path, tmpdir) (jboss.py:177, ejabberd.py:126)
Deploy(outcome) ==
    /\ pc = "deploy"
    /\ steps' = Append(steps, Did("deploy", attempt, outcome))
    /\ pc' = "finally"
    /\ UNCHANGED << self, attempt, res, ret, ovpnVars >>

\* The finally clause, then the return that is pending: the `return 0` after
\* the deployment (jboss.py:178, ejabberd.py:127) or, when a handler has
\* caught an exception, the `return 0` that ends the body of the loop
\* (jboss.py:191, ejabberd.py:140)
Finally ==
    /\ pc = "finally"
    /\ steps' = Append(steps, Did("rmtree", attempt, "ok"))
    /\ ret' = IF steps[Len(steps)] = Did("deploy", attempt, "ok")
              THEN << Returned(0) >>
              ELSE << Returned(0) >>
    /\ pc' = "done"
    /\ UNCHANGED << self, attempt, res, ovpnVars >>

\* Ejabberd.install: ret = self._install(attempts=3); if ret != 0: raise
\* errors.SetupError(...); return 0
EjabberdInstall ==
    /\ self.class = "Ejabberd"
    /\ pc = "done"
    /\ pc' = "installed"
    /\ res' = IF ret[1].outcome \notin { "return", "None" } THEN ret
              ELSE IF ~ReturnedZero(ret[1]) THEN << Raised("SetupError") >>
              ELSE << Returned(0) >>
    /\ UNCHANGED << self, attempt, steps, ret, ovpnVars >>

NextInstall ==
    \/ GetPackager
    \/ \E outcome \in { "ok", "Exception" } : ForProvserver(outcome)
    \/ \E outcome \in Outcomes : Download(outcome)
    \/ \E outcome \in Outcomes : Deploy(outcome)
    \/ Finally
    \/ EjabberdInstall

SpecInstall == InitInstall /\ [][NextInstall]_vars

\* The archive of provserver k was downloaded and deployed
Succeeded(k) ==
    /\ \E n \in 1..Len(steps) : steps[n] = Did("download", k, "ok")
    /\ \E n \in 1..Len(steps) : steps[n] = Did("deploy", k, "ok")

\* The download or the deployment from provserver k failed
FailedAt(k) ==
    \E n \in 1..Len(steps) :
       /\ steps[n].call \in { "download", "deploy" }
       /\ steps[n].server = k
       /\ steps[n].outcome # "ok"

\* _install turned to provserver k
Tried(k) == \E n \in 1..Len(steps) : steps[n].server = k

\* C28: when _install has ended, every provisioning server whose download or
\* deployment failed was followed by the next server, if there is one; the
\* result is 0 only if download and deployment succeeded for some server;
\* when none succeeded the result is not 0 and Ejabberd.install raises
\* SetupError.
C28_ProvisioningFallback ==
    ( pc \in { "done", "installed" } /\ self.packager # "other" ) =>
       /\ \A k \in 1..(self.servers - 1) : FailedAt(k) => Tried(k + 1)
       /\ ReturnedZero(ret[1]) => \E k \in 1..self.servers : Succeeded(k)
       /\ ( pc = "installed" /\ ~ \E k \in 1..self.servers : Succeeded(k) )
             => res[1].outcome = "SetupError"

----------------------------------------------------------------------------
(***************************************************************************)
(* Ejbca.configure from its deploy loop on, ejbca.py:1330-1365.            *)
(*                                                                         *)
(* attempt is the loop variable i, res the field ejbca_install_result,     *)
(* steps the ant and JBoss calls made with the code each returned, ret     *)
(* the value configure returns.                                            *)
(***************************************************************************)

\* for i in range(0, 5), line 1331
DeployAttempts == 5

\* for i in range(0, 3), line 1344
InstallAttempts == 3

\* Mutant of Break: the loops never break.
Break_Never(code) == FALSE

\* if res == 0: break (lines 1337-1338 and 1353-1354)
Break(code) == code = 0

\* Control reaches line 1330: JBoss was restarted and the database backed up.
InitConfigure ==
    /\ OpenVpnUnused
    /\ self \in { [ class |-> "Ejbca", do_vpn |-> v ] : v \in BOOLEAN }
    /\ pc = "deploy"
    /\ attempt = 0
    /\ res = 0
    /\ steps = << >>
    /\ ret = << >>

\* One round of the deploy loop, lines 1331-1338
AntDeploy(code) ==
    /\ pc = "deploy"
    /\ steps' = Append(steps, Made("ant_deploy", code))
    /\ res' = code
    /\ IF Break(code) \/ attempt + 1 = DeployAttempts
       THEN /\ pc' = "deployed"
            /\ attempt' = attempt
       ELSE /\ pc' = "deploy"
            /\ attempt' = attempt + 1
    /\ UNCHANGED << self, ret, ovpnVars >>

\* if self.ejbca_install_result != 0: return 2 (lines 1340-1341)
AfterDeploy ==
    /\ pc = "deployed"
    /\ IF res # 0
       THEN /\ ret' = << 2 >>
            /\ pc' = "done"
            /\ attempt' = attempt
       ELSE /\ ret' = ret
            /\ pc' = "install"
            /\ attempt' = 0
    /\ UNCHANGED << self, res, steps, ovpnVars >>

\* One round of the install loop, lines 1344-1354
AntInstall(code) ==
    /\ pc = "install"
    /\ steps' = steps \o << Made("jboss_fix_privileges", 0),
                            Made("jboss_wait_after_deploy", 0),
                            Made("ant_install", code) >>
    /\ res' = code
    /\ IF Break(code) \/ attempt + 1 = InstallAttempts
       THEN /\ pc' = "installed"
            /\ attempt' = attempt
       ELSE /\ pc' = "install"
            /\ attempt' = attempt + 1
    /\ UNCHANGED << self, ret, ovpnVars >>

\* Lines 1356-1365: client tools, rewrite rules, reload, and the return of
\* ejbca_install_result
AfterInstall ==
    /\ pc = "installed"
    /\ steps' = steps \o << Made("ant_client_tools", 0),
                            Made("jboss_fix_privileges", 0),
                            Made(IF self.do_vpn THEN "jboss_configure_rewrite_vpn"
                                 ELSE "jboss_configure_rewrite_ejbca", 0),
                            Made("jboss_reload", 0) >>
    /\ ret' = << res >>
    /\ pc' = "done"
    /\ UNCHANGED << self, attempt, res, ovpnVars >>

NextConfigure ==
    \/ \E code \in Codes : AntDeploy(code)
    \/ AfterDeploy
    \/ \E code \in Codes : AntInstall(code)
    \/ AfterInstall

SpecConfigure == InitConfigure /\ [][NextConfigure]_vars

\* The result codes of the calls of the given name, in the order made
RECURSIVE CodesOf(_, _)
CodesOf(name, log) ==
    IF log = << >> THEN << >>
    ELSE ( IF Head(log).call = name THEN << Head(log).res >> ELSE << >> )
         \o CodesOf(name, Tail(log))

\* Every attempt but the last failed
StopsAtFirstZero(codes) == \A n \in 1..(Len(codes) - 1) : codes[n] # 0

\* C29: ant deploy runs at most 5 times and not again after it returned 0;
\* after 5 failed deploys configure returns 2 and ant install has not run;
\* ant install runs only after a deploy that returned 0, at most 3 times and
\* not again after it returned 0, and configure then returns the code of the
\* last install.
C29_RetrySequencing ==
    LET deploys  == CodesOf("ant_deploy", steps)
        installs == CodesOf("ant_install", steps)
    IN  /\ Len(deploys) <= 5
        /\ StopsAtFirstZero(deploys)
        /\ Len(installs) <= 3
        /\ StopsAtFirstZero(installs)
        /\ installs # << >> => deploys[Len(deploys)] = 0
        /\ ret # << >> =>
              IF Len(deploys) = 5 /\ deploys[5] # 0
              THEN ret = << 2 >> /\ installs = << >>
              ELSE /\ deploys # << >> /\ deploys[Len(deploys)] = 0
                   /\ installs # << >>
                   /\ installs[Len(installs)] = 0 \/ Len(installs) = 3
                   /\ ret = << installs[Len(installs)] >>

\* Reached: deploy succeeded at the third attempt, the three installs failed
\* and configure returned the code of the third.
C29_Witness ==
    /\ ret # << >>
    /\ Len(CodesOf("ant_deploy", steps)) = 3
    /\ CodesOf("ant_install", steps) = << 1, 1, 2 >>
    /\ ret = << 2 >>

----------------------------------------------------------------------------
(***************************************************************************)
(* Jboss.wait_after_start (deployers/jboss.py:320-349) and                 *)
(* Ejbca.jboss_wait_after_start (ejbca.py:710-739), which read alike.      *)
(*                                                                         *)
(* attempt is the loop variable i, res the local jboss_works, ret the      *)
(* value returned.  steps folds the polls made into one entry: how many    *)
(* were made, how many of them reported a running server, and what the     *)
(* last one gave.                                                          *)
(***************************************************************************)

\* max_attempts = 30 (jboss.py:326, ejbca.py:716)
max_attempts == 30

\* A poll prints at most MaxOut lines
MaxOut == 2

\* Lines of the output of `:read-attribute(name=server-state)`
OutLines ==
    { "\"outcome\" => \"success\"", "\"outcome\" => \"failed\"",
      "\"result\" => \"running\"", "\"result\" => \"starting\"" }

\* How a poll ends: the call (or the unpacking of what it returns, when
\* Jboss.cli_cmd returns the bare 1 of line 301) raises, or it gives the
\* output out: << >> for None, << lines >> for a list of lines
PollResults ==
    { [ raises |-> TRUE, out |-> << >> ] }
       \cup { [ raises |-> FALSE, out |-> o ] :
                 o \in { << >> } \cup { << l >> : l \in SeqsUpTo(OutLines, MaxOut) } }

\* re.search(r'["\']?outcome["\']?\s*=>\s*["\']?success["\']?', out_total)
OutcomeSuccess(lines) ==
    \E n \in 1..Len(lines) : lines[n] = "\"outcome\" => \"success\""

\* re.search(r'["\']?result["\']?\s*=>\s*["\']?running["\']?', out_total)
ResultRunning(lines) ==
    \E n \in 1..Len(lines) : lines[n] = "\"result\" => \"running\""

\* Mutant of JbossWorks: a successful outcome is enough.
JbossWorks_OutcomeOnly(p) ==
    /\ ~p.raises
    /\ p.out # << >>
    /\ OutcomeSuccess(p.out[1])

\* The poll sets jboss_works: it did not raise, its output is neither None
\* nor empty, and both patterns are found in it
JbossWorks(p) ==
    /\ ~p.raises
    /\ p.out # << >>
    /\ Len(p.out[1]) # 0
    /\ OutcomeSuccess(p.out[1])
    /\ ResultRunning(p.out[1])

\* The polls made so far and one more
Polled(log, p, works) ==
    << [ call  |-> "cli_cmd",
         polls |-> IF log = << >> THEN 1 ELSE log[1].polls + 1,
         good  |-> ( IF log = << >> THEN 0 ELSE log[1].good ) + ( IF works THEN 1 ELSE 0 ),
         last  |-> p ] >>

InitWait ==
    /\ OpenVpnUnused
    /\ self \in { [ class |-> "Jboss" ], [ class |-> "Ejbca" ] }
    /\ pc = "poll"
    /\ attempt = 0
    /\ res = FALSE
    /\ steps = << >>
    /\ ret = << >>

\* One round of the loop: sleep when i > 0, poll, break or continue
Poll(p) ==
    /\ pc = "poll"
    /\ steps' = Polled(steps, p, JbossWorks(p))
    /\ IF JbossWorks(p)
       THEN /\ res' = TRUE
            /\ pc' = "return"
            /\ attempt' = attempt
       ELSE /\ res' = res
            /\ pc' = IF attempt + 1 = max_attempts THEN "return" ELSE "poll"
            /\ attempt' = attempt + 1
    /\ UNCHANGED << self, ret, ovpnVars >>

\* return jboss_works
ReturnWorks ==
    /\ pc = "return"
    /\ ret' = << res >>
    /\ pc' = "done"
    /\ UNCHANGED << self, attempt, res, steps, ovpnVars >>

NextWait ==
    \/ \E p \in PollResults : Poll(p)
    \/ ReturnWorks

\* Every call of the loop returns or raises, and the loop then goes on.
SpecWait == InitWait /\ [][NextWait]_vars /\ WF_vars(NextWait)

\* The poll reports outcome success and result running
ReportsRunning(p) ==
    /\ ~p.raises
    /\ p.out # << >>
    /\ \E n \in 1..Len(p.out[1]) : p.out[1][n] = "\"outcome\" => \"success\""
    /\ \E n \in 1..Len(p.out[1]) : p.out[1][n] = "\"result\" => \"running\""

\* What the wait has done so far
WaitBounded ==
    LET polls == IF steps = << >> THEN 0 ELSE steps[1].polls
        good  == IF steps = << >> THEN 0 ELSE steps[1].good
    IN  /\ polls <= 30
        /\ good = IF steps # << >> /\ ReportsRunning(steps[1].last) THEN 1 ELSE 0
        /\ ret # << >> => ret \in { << TRUE >>, << FALSE >> }
        /\ ret = << TRUE >> => good = 1
        /\ ret = << FALSE >> => good = 0 /\ polls = 30

\* C30: the wait makes at most 30 polls and always returns; no poll follows
\* one that reports outcome success and result running, and the wait then
\* returns True; it returns False only after 30 polls none of which reported
\* that, be it that they raised or gave no output.
C30_BoundedWait == []WaitBounded /\ <>( ret # << >> )

\* Reached: the wait returned True at its 30th poll.
C30_Witness ==
    /\ ret = << TRUE >>
    /\ steps[1].polls = 30

====
